---- MODULE Spec2Model ----
(***************************************************************************)
(* Model of the Akeyless Gemini agent: the AkeylessClient Vault Gateway    *)
(* (src/akeyless_gemini_agent.py, class AkeylessClient) and the tool       *)
(* dispatch loop AkeylessGeminiAgent.chat().                               *)
(*                                                                         *)
(* Python strings that the code inspects character by character (secret    *)
(* names, list paths, item types, raw secret values) are sequences of      *)
(* one-character strings.  Python dicts are records / functions whose      *)
(* DOMAIN is the dict's key set, so `"error" in d` is "error" \in DOMAIN d.*)
(* The vault and the hosted model are the environment: their answers are   *)
(* drawn with \E from the sets below.                                      *)
(***************************************************************************)
EXTENDS Integers, Sequences, FiniteSets, TLC

\* ------------------------------------------------------------------ bounds
\* longest secret name the callers pass
MaxNameLen == 3
\* longest list path the callers pass (the /prod examples are added to them)
MaxPathLen == 2
\* longest item listing the vault answers with
MaxItems == 2
\* most tool round trips the hosted model asks for in one chat() call
MaxRounds == 2
\* most messages the dashboard's chat history holds
MaxHistory == 4

\* ------------------------------------------------------- Python str helpers
RECURSIVE LStrip(_, _)
\* str.lstrip(chars): drops every leading character that is in chars
LStrip(s, chars) ==
    IF s # <<>> /\ Head(s) \in chars THEN LStrip(Tail(s), chars) ELSE s

RECURSIVE RStrip(_, _)
\* str.rstrip(chars): drops every trailing character that is in chars
RStrip(s, chars) ==
    IF s # <<>> /\ s[Len(s)] \in chars
    THEN RStrip(SubSeq(s, 1, Len(s) - 1), chars)
    ELSE s

LowerLetters == <<"a","b","c","d","e","f","g","h","i","j","k","l","m",
                  "n","o","p","q","r","s","t","u","v","w","x","y","z">>
UpperLetters == <<"A","B","C","D","E","F","G","H","I","J","K","L","M",
                  "N","O","P","Q","R","S","T","U","V","W","X","Y","Z">>

UpperChar(c) ==
    IF \E i \in 1..Len(LowerLetters) : LowerLetters[i] = c
    THEN UpperLetters[CHOOSE i \in 1..Len(LowerLetters) : LowerLetters[i] = c]
    ELSE c

\* str.upper()
Upper(s) == [i \in 1..Len(s) |-> UpperChar(s[i])]

\* `needle in hay` for two strs
Contains(needle, hay) ==
    \E i \in 0..(Len(hay) - Len(needle)) :
        SubSeq(hay, i + 1, i + Len(needle)) = needle

\* all strings over an alphabet up to a length
StringsUpTo(alphabet, n) == UNION {[1..k -> alphabet] : k \in 0..n}

\* ------------------------------------------------------------- json.loads
\* A raw secret value is a sequence of JSON tokens: the punctuation, the
\* string literals "a" and "b" (tokens sa, sb), a number literal (num) and
\* a bare word that is no JSON (word).
JsonTokens == {"{", "}", "[", "]", ":", ",", "sa", "sb", "num", "word"}

JsonFail == [ok |-> FALSE]
JsonOk(v, rest) == [ok |-> TRUE, val |-> v, rest |-> rest]

\* dict built from key/value pairs in order: a repeated key keeps the last
RECURSIVE DictOf(_)
DictOf(pairs) ==
    IF pairs = <<>> THEN <<>>
    ELSE LET last == pairs[Len(pairs)]
             init == DictOf(SubSeq(pairs, 1, Len(pairs) - 1))
         IN  [k \in DOMAIN init \cup {last[1]} |->
                 IF k = last[1] THEN last[2] ELSE init[k]]

RECURSIVE ParseValue(_), ParseMembers(_, _), ParseElems(_, _)
ParseValue(t) ==
    IF t = <<>> THEN JsonFail
    ELSE CASE Head(t) \in {"sa", "sb"} ->
                  JsonOk([t |-> "str", s |-> Head(t)], Tail(t))
           [] Head(t) = "num" -> JsonOk([t |-> "num"], Tail(t))
           [] Head(t) = "{" ->
                  IF Len(t) >= 2 /\ t[2] = "}"
                  THEN JsonOk([t |-> "dict", d |-> <<>>], SubSeq(t, 3, Len(t)))
                  ELSE ParseMembers(Tail(t), <<>>)
           [] Head(t) = "[" ->
                  IF Len(t) >= 2 /\ t[2] = "]"
                  THEN JsonOk([t |-> "list", l |-> <<>>], SubSeq(t, 3, Len(t)))
                  ELSE ParseElems(Tail(t), <<>>)
           [] OTHER -> JsonFail

\* after "{" or ",": key ":" value, then "," or "}"
ParseMembers(t, acc) ==
    IF Len(t) < 2 \/ Head(t) \notin {"sa", "sb"} \/ t[2] # ":" THEN JsonFail
    ELSE LET r == ParseValue(SubSeq(t, 3, Len(t))) IN
         IF ~r.ok \/ r.rest = <<>> THEN JsonFail
         ELSE LET acc2 == Append(acc, <<Head(t), r.val>>) IN
              CASE Head(r.rest) = "}" ->
                       JsonOk([t |-> "dict", d |-> DictOf(acc2)], Tail(r.rest))
                [] Head(r.rest) = "," -> ParseMembers(Tail(r.rest), acc2)
                [] OTHER -> JsonFail

\* after "[" or ",": value, then "," or "]"
ParseElems(t, acc) ==
    LET r == ParseValue(t) IN
    IF ~r.ok \/ r.rest = <<>> THEN JsonFail
    ELSE LET acc2 == Append(acc, r.val) IN
         CASE Head(r.rest) = "]" ->
                  JsonOk([t |-> "list", l |-> acc2], Tail(r.rest))
           [] Head(r.rest) = "," -> ParseElems(Tail(r.rest), acc2)
           [] OTHER -> JsonFail

\* json.loads(raw): the parsed value, or ok = FALSE for JSONDecodeError
\* (a value followed by more tokens is "Extra data")
JsonLoads(raw) ==
    LET r == ParseValue(raw) IN
    IF r.ok /\ r.rest = <<>> THEN r ELSE JsonFail


\* ------------------------------------------------------------ Python values
PyDict(d) == [t |-> "dict", d |-> d]
PyStr(s) == [t |-> "str", s |-> s]
PyList(l) == [t |-> "list", l |-> l]
PyNum == [t |-> "num"]
PyNone == [t |-> "None"]

IsDict(v) == v.t = "dict"
\* `k in v` for a dict v
HasKey(v, k) == IsDict(v) /\ k \in DOMAIN v.d
\* v.get(k, default)
DictGet(v, k, default) == IF k \in DOMAIN v.d THEN v.d[k] ELSE default

\* str(e): the message of an exception, identified by the exception
StrOfExc(e) == [message_of |-> e]

\* ------------------------------------------------------------------ inputs
Slash == "/"
\* secret names the callers pass: every string of "/" and "a" up to MaxNameLen
SecretNames == StringsUpTo({Slash, "a"}, MaxNameLen)

Prod == <<"/", "p", "r", "o", "d">>
\* list paths the callers pass
ListPaths == StringsUpTo({Slash, "*", "p"}, MaxPathLen)
                 \cup {Prod, Prod \o <<"/">>, Prod \o <<"/", "*">>}
\* secret_type filters: None or a type name
SecretTypeFilters == {PyNone, PyStr(<<"s">>)}

\* raw secret values the vault stores, as JSON token sequences
RawValues ==
    { <<"{", "}">>,
      <<"{", "sa", ":", "num", "}">>,
      <<"{", "sa", ":", "sb", ",", "sa", ":", "[", "]", "}">>,
      <<"[", "num", "]">>,
      <<"[", "{", "}", "]">>,
      <<"num">>,
      <<"sa">>,
      <<"word">>,
      <<"{", "sa", ":", "}">>,
      <<"{", "}", "word">>,
      <<>> }

\* item_type strings the vault reports
ItemTypes ==
    { <<"S","T","A","T","I","C","_","S","E","C","R","E","T">>,
      <<"s","t","a","t","i","c">>,
      <<"R","o","t","a","t","e","d","_","S","e","c","r","e","t">>,
      <<"D","Y","N","A","M","I","C","_","S","E","C","R","E","T">>,
      <<"R","O","T","A","T","E","D","_","S","T","A","T","I","C">>,
      <<"C","E","R","T">> }

\* one listed item: item_name and item_type, or an item with no item_type key
\* (item.get("item_type", "") then yields "")
ListedItems ==
    {PyDict([item_name |-> <<"i", "_">> \o ty, item_type |-> ty]) : ty \in ItemTypes}
        \cup {PyDict([item_name |-> <<"n">>])}

Listings == UNION {[1..k -> ListedItems] : k \in 0..MaxItems}

\* ----------------------------------------------------------- the vault
\* An HTTP exchange either fails in transport (requests raises
\* ConnectionError, whose .response is None) or yields a response with a
\* status and a JSON body.
ConnError == [kind |-> "conn_error"]
HttpReply(status, body) == [kind |-> "http", status |-> status, body |-> body]

SessionTokens == {"tok1", "tok2"}
\* Python None where a token string is expected
TokenNone == "<None>"

\* answers of POST /auth
AuthReplies ==
    {ConnError, HttpReply(401, PyDict(<<>>)), HttpReply(200, PyDict(<<>>))}
        \cup {HttpReply(200, PyDict([token |-> tk])) : tk \in SessionTokens}

NameOps == {"get_static_secret", "get_rotated_secret",
            "get_dynamic_secret", "get_secret_metadata"}
PathOps == {"list_secrets", "count_secrets_by_type"}
GatewayOps == NameOps \cup PathOps

\* the endpoint each operation posts to (count_secrets_by_type posts through
\* its list_secrets call)
EndpointOf(op) ==
    CASE op = "get_static_secret" -> "/get-secret-value"
      [] op = "get_rotated_secret" -> "/get-rotated-secret-value"
      [] op = "get_dynamic_secret" -> "/get-dynamic-secret-value"
      [] op = "get_secret_metadata" -> "/describe-item"
      [] op \in PathOps -> "/list-items"

\* 2xx bodies of /list-items: a listing, an object without items, an
\* object with another key
ListBodies ==
    {PyDict([items |-> PyList(l)]) : l \in Listings}
        \cup {PyDict(<<>>), PyDict([next_page |-> "p"])}

\* 2xx bodies of the endpoint an operation posts to, for the cleaned name
OkBodies(op, clean) ==
    CASE op \in {"get_static_secret", "get_rotated_secret"} ->
             {PyDict([n \in {clean} |-> PyStr(raw)]) : raw \in RawValues}
                 \cup {PyDict([n \in {clean} |-> PyNum]), PyDict(<<>>), PyList(<<>>)}
      [] op \in {"get_dynamic_secret", "get_secret_metadata"} ->
             {PyDict([id |-> "x"]), PyList(<<>>)}
      [] op \in PathOps -> ListBodies

\* answers of POST /list-items
ListReplies ==
    {ConnError, HttpReply(403, PyDict(<<>>))}
        \cup {HttpReply(200, b) : b \in ListBodies}

EndpointReplies(op, clean) ==
    IF op \in PathOps THEN ListReplies
    ELSE {ConnError, HttpReply(403, PyDict(<<>>))}
             \cup {HttpReply(200, b) : b \in OkBodies(op, clean)}


\* ------------------------------------------------------ outcomes of a call
Return(v) == [raised |-> FALSE, val |-> v]
Raise(e) == [raised |-> TRUE, exc |-> e]

ConnectionErrorExc == [exc |-> "ConnectionError", has_response |-> FALSE]
HTTPErrorExc(reply) ==
    [exc |-> "HTTPError", has_response |-> TRUE, status |-> reply.status]
AttributeErrorExc == [exc |-> "AttributeError"]

\* requests.post(url, json=payload); response.raise_for_status();
\* response.json()
PostJson(reply) ==
    IF reply.kind = "conn_error" THEN Raise(ConnectionErrorExc)
    ELSE IF reply.status >= 400 THEN Raise(HTTPErrorExc(reply))
    ELSE Return(reply.body)

\* AkeylessClient._get_token: the token of the /auth answer; the except
\* clause prints and re-raises
GetTokenOutcome(reply) ==
    LET p == PostJson(reply) IN
    IF p.raised THEN Raise(p.exc)
    ELSE Return(DictGet(p.val, "token", TokenNone))

\* `token = self._get_token()` stands before the try block of every
\* operation: an exception of _get_token leaves the operation
OnGetTokenRaised(op, e) == Raise(e)

\* CleanName dropping one leading "/" only
CleanNameOneSlash(secret_name) ==
    IF secret_name # <<>> /\ Head(secret_name) = Slash
    THEN Tail(secret_name) ELSE secret_name

\* clean_name = secret_name.lstrip('/')
CleanName(secret_name) == LStrip(secret_name, {Slash})

\* CleanPath with rstrip('/') alone: a trailing "*" stays
CleanPathSlashOnly(path) ==
    LET stripped == RStrip(path, {Slash}) IN
    IF stripped = <<>> THEN <<Slash>> ELSE stripped

\* clean_path = path.rstrip('/*').rstrip('/'); "/" when that is empty
CleanPath(path) ==
    LET stripped == RStrip(RStrip(path, {Slash, "*"}), {Slash}) IN
    IF stripped = <<>> THEN <<Slash>> ELSE stripped

\* the cleaned name or path an operation puts in its request
CleanArg(op, args) ==
    IF op \in NameOps THEN CleanName(args.secret_name) ELSE CleanPath(args.path)

\* `if secret_type:` - None and "" are falsy
Truthy(v) == v.t = "str" /\ v.s # <<>>

\* PayloadOf sending self.token, which no code assigns after the
\* constructor set it to None, in place of the token just obtained
PayloadOfStoredToken(op, token, args) ==
    CASE op \in {"get_static_secret", "get_rotated_secret"} ->
             [token |-> TokenNone, names |-> <<CleanName(args.secret_name)>>,
              json |-> FALSE]
      [] op \in {"get_dynamic_secret", "get_secret_metadata"} ->
             [token |-> TokenNone, name |-> CleanName(args.secret_name)]
      [] op \in PathOps ->
             IF Truthy(args.secret_type)
             THEN [token |-> TokenNone, path |-> CleanPath(args.path),
                   type |-> args.secret_type.s]
             ELSE [token |-> TokenNone, path |-> CleanPath(args.path)]

\* the JSON payload of the endpoint request
PayloadOf(op, token, args) ==
    CASE op \in {"get_static_secret", "get_rotated_secret"} ->
             [token |-> token, names |-> <<CleanName(args.secret_name)>>,
              json |-> FALSE]
      [] op \in {"get_dynamic_secret", "get_secret_metadata"} ->
             [token |-> token, name |-> CleanName(args.secret_name)]
      [] op \in PathOps ->
             IF Truthy(args.secret_type)
             THEN [token |-> token, path |-> CleanPath(args.path),
                   type |-> args.secret_type.s]
             ELSE [token |-> token, path |-> CleanPath(args.path)]

\* get_static_secret, from the endpoint's answer on
GetStaticSecret(secret_name, reply) ==
    LET clean_name == CleanName(secret_name)
        p == PostJson(reply)
    IN
    IF p.raised
    THEN \* error_detail = e.response.text if hasattr(e, 'response') else
         \* str(e): every requests exception has the attribute, and it is
         \* None when no response arrived
         IF p.exc.has_response
         THEN Return(PyDict([error |-> StrOfExc(p.exc),
                             detail |-> [text_of |-> p.exc.status]]))
         ELSE Raise(AttributeErrorExc)
    ELSE LET result == p.val IN
         IF IsDict(result) /\ clean_name \in DOMAIN result.d
         THEN LET secret_value == result.d[clean_name] IN
              IF secret_value.t = "str"
              THEN LET parsed == JsonLoads(secret_value.s) IN
                   IF parsed.ok /\ IsDict(parsed.val)
                   THEN Return(PyDict([name |-> secret_name,
                                       type |-> "structured",
                                       fields |-> parsed.val.d,
                                       success |-> TRUE]))
                   ELSE Return(PyDict([name |-> secret_name,
                                       type |-> "simple",
                                       value |-> secret_value,
                                       success |-> TRUE]))
              ELSE Return(PyDict([name |-> secret_name,
                                  value |-> secret_value,
                                  success |-> TRUE]))
         ELSE Return(PyDict([name |-> secret_name, value |-> result,
                             success |-> TRUE]))

\* get_rotated_secret, from the endpoint's answer on
GetRotatedSecret(secret_name, reply) ==
    LET clean_name == CleanName(secret_name)
        p == PostJson(reply)
    IN
    IF p.raised THEN Return(PyDict([error |-> StrOfExc(p.exc)]))
    ELSE LET result == p.val IN
         IF IsDict(result) /\ clean_name \in DOMAIN result.d
         THEN LET secret_value == result.d[clean_name]
                  parsed == IF secret_value.t = "str"
                            THEN JsonLoads(secret_value.s) ELSE JsonFail
              IN
              IF parsed.ok /\ IsDict(parsed.val)
              THEN Return(PyDict([name |-> secret_name,
                                  type |-> "structured",
                                  fields |-> parsed.val.d]))
              ELSE Return(PyDict([name |-> secret_name,
                                  value |-> secret_value]))
         ELSE Return(PyDict([name |-> secret_name, value |-> result]))

\* get_dynamic_secret, from the endpoint's answer on
GetDynamicSecret(reply) ==
    LET p == PostJson(reply) IN
    IF p.raised THEN Return(PyDict([error |-> StrOfExc(p.exc)]))
    ELSE Return(p.val)

\* list_secrets, from the endpoint's answer on
ListSecrets(reply) ==
    LET p == PostJson(reply) IN
    IF p.raised THEN Return(PyDict([error |-> StrOfExc(p.exc)]))
    ELSE Return(p.val)

\* get_secret_metadata, from the endpoint's answer on
GetSecretMetadata(reply) ==
    LET p == PostJson(reply) IN
    IF p.raised THEN Return(PyDict([error |-> StrOfExc(p.exc)]))
    ELSE Return(p.val)

STATIC == <<"S","T","A","T","I","C">>
ROTATED == <<"R","O","T","A","T","E","D">>
DYNAMIC == <<"D","Y","N","A","M","I","C">>

\* BucketOf without .upper(): the keywords are matched case-sensitively
BucketOfCaseSensitive(item) ==
    LET item_type == DictGet(item, "item_type", <<>>) IN
    IF Contains(STATIC, item_type) THEN "static"
    ELSE IF Contains(ROTATED, item_type) THEN "rotated"
    ELSE IF Contains(DYNAMIC, item_type) THEN "dynamic"
    ELSE "other"

\* the if/elif chain of count_secrets_by_type for one item
BucketOf(item) ==
    LET item_type == Upper(DictGet(item, "item_type", <<>>)) IN
    IF Contains(STATIC, item_type) THEN "static"
    ELSE IF Contains(ROTATED, item_type) THEN "rotated"
    ELSE IF Contains(DYNAMIC, item_type) THEN "dynamic"
    ELSE "other"

Buckets == {"static", "rotated", "dynamic", "other"}
Unknown == <<"u","n","k","n","o","w","n">>

RECURSIVE Tally(_, _, _)
\* the for loop of count_secrets_by_type over items[i..]
Tally(items, i, acc) ==
    IF i > Len(items) THEN acc
    ELSE LET b == BucketOf(items[i])
             item_name == DictGet(items[i], "item_name", Unknown)
         IN  Tally(items, i + 1,
                   [counts |-> [acc.counts EXCEPT ![b] = @ + 1],
                    items_by_type |->
                        [acc.items_by_type EXCEPT ![b] = Append(@, item_name)]])

\* count_secrets_by_type, from the return of its list_secrets call on
CountSecretsByType(all_items) ==
    IF HasKey(all_items, "error") THEN Return(all_items)
    ELSE LET items == DictGet(all_items, "items", PyList(<<>>)).l IN
         Return(PyDict(
             Tally(items, 1,
                   [counts |-> [total |-> Len(items), static |-> 0,
                                rotated |-> 0, dynamic |-> 0, other |-> 0],
                    items_by_type |-> [b \in Buckets |-> <<>>]])))

\* what an operation returns or raises once its endpoint has answered
OpOutcome(op, args, reply) ==
    CASE op = "get_static_secret" -> GetStaticSecret(args.secret_name, reply)
      [] op = "get_rotated_secret" -> GetRotatedSecret(args.secret_name, reply)
      [] op = "get_dynamic_secret" -> GetDynamicSecret(reply)
      [] op = "get_secret_metadata" -> GetSecretMetadata(reply)
      [] op = "list_secrets" -> ListSecrets(reply)
      [] op = "count_secrets_by_type" ->
             CountSecretsByType(ListSecrets(reply).val)

\* ------------------------------------------------------------------ state
VARIABLES
    client,     \* AkeylessClient fields: access_id, access_key, gateway_url, token
    gwOp,       \* the Gateway operation in progress or last finished
    gwArgs,     \* its arguments, defaults filled in
    gwPhase,    \* idle | auth | request | returned | raised
    gwToken,    \* its local variable token
    gwOut,      \* the value it returned or the exception it raised
    http,       \* the HTTP requests it has sent, in order, each with its answer
    nHttp,      \* HTTP requests since the current chat() or direct call began
    pc,         \* chat(): idle | sending | loop | tool | returned
    response,   \* chat(): the model's latest response
    sent,       \* chat(): the message handed to send_message and not yet answered
    answer,     \* chat(): the string it returned
    rounds,     \* function-response turns this chat() call has sent
    invoked,    \* Gateway operations this chat() call has invoked
    fedBack,    \* Gateway results this chat() call has sent back to the model
    failedBefore, \* an earlier chat() call on this agent ended on a model fault
    authenticated,   \* dashboard: st.session_state.authenticated
    akeyless_client, \* dashboard: st.session_state.akeyless_client
    agent,           \* dashboard: st.session_state.agent
    chat_history     \* dashboard: st.session_state.chat_history

gwVars == <<gwOp, gwArgs, gwPhase, gwToken, gwOut, http>>
\* how an HTTP exchange ended: ok | status (non-2xx) | transport
ExchangeOutcome(reply) ==
    IF reply.kind = "conn_error" THEN "transport"
    ELSE IF reply.status >= 400 THEN "status" ELSE "ok"
chatVars == <<pc, response, sent, answer, rounds, invoked, fedBack,
              failedBefore>>
uiVars == <<authenticated, akeyless_client, agent, chat_history>>
vars == <<client, gwVars, nHttp, chatVars, uiVars>>

NoResponse == [candidates |-> <<>>, none |-> TRUE]
NoMessage == [kind |-> "none"]
NoAnswer == [error |-> FALSE, body |-> <<>>, none |-> TRUE]

\* AkeylessClient.__init__ and AkeylessGeminiAgent.__init__; the dashboard's
\* session state as a first script run leaves it
Init ==
    /\ client = [access_id |-> "id", access_key |-> "key",
                 gateway_url |-> "https://api.akeyless.io", token |-> TokenNone]
    /\ gwOp = "none"
    /\ gwArgs = <<>>
    /\ gwPhase = "idle"
    /\ gwToken = TokenNone
    /\ gwOut = PyNone
    /\ http = <<>>
    /\ nHttp = 0
    /\ pc = "idle"
    /\ response = NoResponse
    /\ sent = NoMessage
    /\ answer = NoAnswer
    /\ rounds = 0
    /\ invoked = 0
    /\ fedBack = 0
    /\ failedBefore = FALSE
    /\ authenticated = FALSE
    /\ akeyless_client = PyNone
    /\ agent = PyNone
    /\ chat_history = <<>>

\* ------------------------------------------------------- Gateway operations
\* entry of an operation: bind the arguments; nothing is sent yet
BeginOp(op, args) ==
    /\ gwOp' = op
    /\ gwArgs' = args
    /\ gwPhase' = "auth"
    /\ gwToken' = TokenNone
    /\ gwOut' = PyNone
    /\ http' = <<>>

\* the arguments a caller may pass to an operation
ArgsOf(op) ==
    CASE op \in NameOps -> {[secret_name |-> n] : n \in SecretNames}
      [] op = "list_secrets" ->
             {[path |-> p, secret_type |-> ty] :
                  p \in ListPaths, ty \in SecretTypeFilters}
      [] op = "count_secrets_by_type" ->
             {[path |-> p, secret_type |-> PyNone] : p \in ListPaths}

\* a caller outside chat() (the dashboard, a script) calls an operation
DirectCall ==
    /\ pc = "idle"
    /\ gwPhase \in {"idle", "returned", "raised"}
    /\ \E op \in GatewayOps : \E args \in ArgsOf(op) : BeginOp(op, args)
    /\ nHttp' = 0
    /\ UNCHANGED <<uiVars, client, chatVars>>

\* token = self._get_token(): POST /auth
GetToken ==
    /\ gwPhase = "auth"
    /\ \E reply \in AuthReplies :
         LET t == GetTokenOutcome(reply)
             o == IF t.raised THEN OnGetTokenRaised(gwOp, t.exc) ELSE t
         IN
         /\ http' = Append(http,
                [url |-> "/auth",
                 payload |-> [access_id |-> client.access_id,
                              access_key |-> client.access_key],
                 reply |-> reply])
         /\ nHttp' = nHttp + 1
         /\ IF o.raised
            THEN gwPhase' = "raised" /\ gwOut' = o.exc /\ UNCHANGED gwToken
            ELSE IF t.raised
            THEN gwPhase' = "returned" /\ gwOut' = o.val /\ UNCHANGED gwToken
            ELSE gwPhase' = "request" /\ gwToken' = o.val /\ UNCHANGED gwOut
    /\ UNCHANGED <<uiVars, client, gwOp, gwArgs, chatVars>>

\* PhaseAfterRequest sending the request again when the exchange failed
PhaseAfterRequestRetrying(reply, o) ==
    IF ExchangeOutcome(reply) # "ok" THEN "request"
    ELSE IF o.raised THEN "raised" ELSE "returned"

\* where an operation stands once its endpoint request is answered: the
\* request sits in straight-line code, in no loop, so whatever the answer
\* the operation ends, returning or raising
PhaseAfterRequest(reply, o) == IF o.raised THEN "raised" ELSE "returned"

\* the operation's own request and what it makes of the answer
Request ==
    /\ gwPhase = "request"
    /\ \E reply \in EndpointReplies(gwOp, CleanArg(gwOp, gwArgs)) :
         LET o == OpOutcome(gwOp, gwArgs, reply) IN
         /\ http' = Append(http,
                [url |-> EndpointOf(gwOp),
                 payload |-> PayloadOf(gwOp, gwToken, gwArgs),
                 reply |-> reply])
         /\ nHttp' = nHttp + 1
         /\ gwPhase' = PhaseAfterRequest(reply, o)
         /\ gwOut' = IF o.raised THEN o.exc ELSE o.val
    /\ UNCHANGED <<uiVars, client, gwOp, gwArgs, gwToken, chatVars>>

NextGateway == DirectCall \/ GetToken \/ Request

\* the Gateway called directly, one operation after another
SpecGateway == Init /\ [][NextGateway]_vars



\* ------------------------------------------------------- the hosted model
DbPass == <<"d", "b", "/", "p", "a", "s", "s">>
\* secret names and paths the model puts in its tool calls
ChatNames == {DbPass, <<Slash>> \o DbPass}
ChatPaths == {Prod \o <<"/", "*">>}

RegisteredTools == GatewayOps
\* a function name the model makes up
UnknownTools == {"delete_secret"}

TextPart == [kind |-> "text", text |-> "T"]
FunctionCall(name, args) == [kind |-> "fc", name |-> name, args |-> args]

\* function_call.args as the model may fill them in: fitting the tool's
\* signature, empty, or with a key the tool does not take
ModelArgs ==
    {[secret_name |-> n] : n \in ChatNames}
        \cup {[path |-> p] : p \in ChatPaths}
        \cup {[path |-> p, secret_type |-> PyStr(<<"s">>)] : p \in ChatPaths}
        \cup {<<>>}

FunctionCalls ==
    {FunctionCall(n, a) : n \in RegisteredTools \cup UnknownTools, a \in ModelArgs}

SomeCall == FunctionCall("get_static_secret", [secret_name |-> DbPass])
OtherCall == FunctionCall("list_secrets", <<>>)

\* the parts of one model turn: no part, text, one function call, text
\* before or after a function call, two function calls
Turns ==
    {<<>>, <<TextPart>>, <<TextPart, SomeCall>>, <<SomeCall, TextPart>>,
     <<SomeCall, OtherCall>>}
        \cup {<<fc>> : fc \in FunctionCalls}

\* what send_message returns: a response whose first candidate holds the
\* turn, or a response without candidates (a blocked prompt)
ResponseOf(parts) == [candidates |-> <<[parts |-> parts]>>]
ModelResponses == {ResponseOf(t) : t \in Turns} \cup {[candidates |-> <<>>]}

UserMessages == {"utterance"}

\* ------------------------------------------------------------------ chat()
\* hasattr(part, 'function_call') and part.function_call
IsFunctionCall(part) == part.kind = "fc"

\* FirstPartIsCall never true: the loop is left on the first test
FirstPartIsCallNever(resp) == resp.candidates[1].parts # resp.candidates[1].parts

\* the loop's test on a response that has a candidate: parts is not empty
\* and parts[0] is a function call
FirstPartIsCall(resp) ==
    IF resp.candidates[1].parts = <<>> THEN FALSE
    ELSE IsFunctionCall(resp.candidates[1].parts[1])

ValueErrorExc == [exc |-> "ValueError"]

\* ResponseText skipping the parts that are not text instead of raising
ResponseTextSkipsCalls(resp) ==
    LET parts == resp.candidates[1].parts IN
    IF parts = <<>> THEN Raise(ValueErrorExc)
    ELSE Return([i \in {k \in 1..Len(parts) : parts[k].kind = "text"} |->
                    parts[i].text])

\* ResponseText reading the text from the second part on
ResponseTextDropsFirst(resp) ==
    LET parts == resp.candidates[1].parts IN
    IF parts = <<>> THEN Raise(ValueErrorExc)
    ELSE IF \E i \in 1..Len(parts) : parts[i].kind # "text"
    THEN Raise(ValueErrorExc)
    ELSE Return([i \in 1..(Len(parts) - 1) |-> parts[i + 1].text])

\* response.text: the text of the parts; ValueError when the response holds
\* no part or a part that is not text (a function_call part)
ResponseText(resp) ==
    LET parts == resp.candidates[1].parts IN
    IF parts = <<>> THEN Raise(ValueErrorExc)
    ELSE IF \E i \in 1..Len(parts) : parts[i].kind # "text"
    THEN Raise(ValueErrorExc)
    ELSE Return([i \in 1..Len(parts) |-> parts[i].text])

\* the keyword parameters of a tool wrapper, and the required ones
ParamsOf(name) ==
    CASE name \in NameOps -> {"secret_name"}
      [] name = "list_secrets" -> {"path", "secret_type"}
      [] name = "count_secrets_by_type" -> {"path"}
RequiredOf(name) == IF name \in NameOps THEN {"secret_name"} ELSE {}

\* whether tool(**function_args) binds, or raises TypeError
Binds(name, args) ==
    /\ DOMAIN args \subseteq ParamsOf(name)
    /\ RequiredOf(name) \subseteq DOMAIN args

\* the arguments the Gateway operation receives from the tool wrapper,
\* defaults filled in
BoundArgs(name, args) ==
    IF name \in NameOps THEN [secret_name |-> args.secret_name]
    ELSE [path |-> IF "path" \in DOMAIN args THEN args.path ELSE <<Slash>>,
          secret_type |-> IF name = "list_secrets" /\ "secret_type" \in DOMAIN args
                          THEN args.secret_type ELSE PyNone]

TypeErrorExc == [exc |-> "TypeError"]
IndexErrorExc == [exc |-> "IndexError"]
ModelErrorExc == [exc |-> "ModelError"]

\* UnknownFunctionResult without the error tag
UnknownFunctionUntagged(name) == PyDict([result |-> <<"Unknown function: ", name>>])

\* the else branch of the dispatch chain
UnknownFunctionResult(name) == PyDict([error |-> <<"Unknown function: ", name>>])

\* the function-response Content chat() sends for a tool call
FunctionResponse(name, result) ==
    [kind |-> "function_response", name |-> name, response |-> [result |-> result]]

TextAnswer(text) == [error |-> FALSE, body |-> text]
\* f"Error: {str(e)}"
ErrorAnswer(e) == [error |-> TRUE, body |-> StrOfExc(e)]

\* ChatExcept catching nothing that send_message raises: the exception
\* leaves chat()
ChatExceptMissesModel(e) ==
    IF e = [exc |-> "ModelError"]
    THEN [pc |-> "raised", answer |-> [error |-> FALSE, body |-> <<>>, none |-> TRUE]]
    ELSE [pc |-> "returned", answer |-> ErrorAnswer(e)]

\* `except Exception as e: return f"Error: {str(e)}"`: where chat() stands
\* and what it hands back once an exception reaches its try block
ChatExcept(e) == [pc |-> "returned", answer |-> ErrorAnswer(e)]

\* the call ends with an exception e inside the try block
Fails(e) ==
    /\ pc' = ChatExcept(e).pc
    /\ answer' = ChatExcept(e).answer
    /\ UNCHANGED <<response, sent, rounds, invoked, fedBack>>

\* chat(user_message) is called: the first send_message is under way
ChatStart ==
    /\ pc \in {"idle", "returned"}
    /\ gwPhase = "idle"
    /\ \E m \in UserMessages :
         sent' = [kind |-> "text", system_instruction |-> TRUE, user |-> m]
    /\ pc' = "sending"
    /\ response' = NoResponse
    /\ answer' = NoAnswer
    /\ rounds' = 0
    /\ invoked' = 0
    /\ fedBack' = 0
    /\ failedBefore' = IF pc = "returned" /\ answer.error
                       THEN failedBefore \/ answer.body = StrOfExc(ModelErrorExc)
                       ELSE failedBefore
    /\ nHttp' = 0
    /\ UNCHANGED <<uiVars, client, gwVars>>

\* send_message returns the model's next turn
ModelReplies ==
    /\ pc = "sending"
    /\ \E r \in ModelResponses :
         \* the model asks for at most MaxRounds tool round trips
         /\ (rounds >= MaxRounds =>
                IF r.candidates = <<>> THEN TRUE ELSE ~FirstPartIsCall(r))
         /\ response' = r
    /\ pc' = "loop"
    /\ sent' = NoMessage
    /\ UNCHANGED <<uiVars, client, gwVars, nHttp, answer, rounds, invoked, fedBack,
                   failedBefore>>

\* send_message raises (network error, API error)
ModelFails ==
    /\ pc = "sending"
    /\ Fails(ModelErrorExc)
    /\ UNCHANGED <<uiVars, client, gwVars, nHttp, failedBefore>>

\* response.candidates[0] on a response without candidates: IndexError
NoCandidate ==
    /\ pc = "loop"
    /\ response.candidates = <<>>
    /\ Fails(IndexErrorExc)
    /\ UNCHANGED <<uiVars, client, gwVars, nHttp, failedBefore>>

\* the loop ends (no parts, or parts[0] is no function call):
\* return response.text
ChatReturn ==
    /\ pc = "loop"
    /\ response.candidates # <<>>
    /\ ~FirstPartIsCall(response)
    /\ LET t == ResponseText(response) IN
       IF t.raised THEN Fails(t.exc)
       ELSE /\ pc' = "returned"
            /\ answer' = TextAnswer(t.val)
            /\ UNCHANGED <<response, sent, rounds, invoked, fedBack>>
    /\ UNCHANGED <<uiVars, client, gwVars, nHttp, failedBefore>>

\* parts[0] is a function call of a registered tool: the wrapper calls the
\* Gateway operation, or tool(**function_args) raises TypeError
ChatDispatch ==
    /\ pc = "loop"
    /\ response.candidates # <<>>
    /\ FirstPartIsCall(response)
    /\ LET part == response.candidates[1].parts[1] IN
       /\ part.name \in RegisteredTools
       /\ IF Binds(part.name, part.args)
          THEN /\ BeginOp(part.name, BoundArgs(part.name, part.args))
               /\ pc' = "tool"
               /\ invoked' = invoked + 1
               /\ UNCHANGED <<response, sent, answer, rounds, fedBack>>
          ELSE /\ Fails(TypeErrorExc)
               /\ UNCHANGED gwVars
    /\ UNCHANGED <<uiVars, client, nHttp, failedBefore>>

\* parts[0] is a function call of no registered tool: the error result is
\* sent back as a function response
ChatUnknown ==
    /\ pc = "loop"
    /\ response.candidates # <<>>
    /\ FirstPartIsCall(response)
    /\ LET part == response.candidates[1].parts[1] IN
       /\ part.name \notin RegisteredTools
       /\ sent' = FunctionResponse(part.name, UnknownFunctionResult(part.name))
    /\ pc' = "sending"
    \* counted up to MaxRounds + 1, which stands for every larger number
    /\ rounds' = IF rounds <= MaxRounds THEN rounds + 1 ELSE rounds
    /\ UNCHANGED <<uiVars, client, gwVars, nHttp, response, answer, invoked, fedBack,
                   failedBefore>>

\* the Gateway operation returned: its result is sent back as a function
\* response
ToolReturns ==
    /\ pc = "tool"
    /\ gwPhase = "returned"
    /\ sent' = FunctionResponse(gwOp, gwOut)
    /\ pc' = "sending"
    /\ rounds' = rounds + 1
    /\ fedBack' = fedBack + 1
    /\ gwOp' = "none" /\ gwArgs' = <<>> /\ gwPhase' = "idle"
    /\ gwToken' = TokenNone /\ gwOut' = PyNone /\ http' = <<>>
    /\ UNCHANGED <<uiVars, client, nHttp, response, answer, invoked, failedBefore>>

\* the Gateway operation raised: the exception reaches chat()'s try block
ToolRaises ==
    /\ pc = "tool"
    /\ gwPhase = "raised"
    /\ Fails(gwOut)
    /\ gwOp' = "none" /\ gwArgs' = <<>> /\ gwPhase' = "idle"
    /\ gwToken' = TokenNone /\ gwOut' = PyNone /\ http' = <<>>
    /\ UNCHANGED <<uiVars, client, nHttp, failedBefore>>

Next ==
    \/ ChatStart
    \/ ModelReplies
    \/ ModelFails
    \/ NoCandidate
    \/ ChatReturn
    \/ ChatDispatch
    \/ ChatUnknown
    \/ ToolReturns
    \/ ToolRaises
    \/ GetToken
    \/ Request

\* one agent, one chat() call after another
Spec == Init /\ [][Next]_vars

\* send_message returns one more tool request although MaxRounds round
\* trips are over: the model does not stop asking (it names the function
\* no tool has, so that no count of Gateway work grows without bound)
ModelInsists ==
    /\ pc = "sending"
    /\ rounds >= MaxRounds
    /\ \E n \in UnknownTools : response' = ResponseOf(<<FunctionCall(n, <<>>)>>)
    /\ pc' = "loop"
    /\ sent' = NoMessage
    /\ UNCHANGED <<uiVars, client, gwVars, nHttp, answer, rounds, invoked, fedBack,
                   failedBefore>>

\* the chat() call in progress takes its next step: send_message comes
\* back (with a turn or an exception), the loop body runs, the Gateway's
\* HTTP requests are answered
InCallStep ==
    \/ ModelReplies
    \/ ModelInsists
    \/ ModelFails
    \/ NoCandidate
    \/ ChatReturn
    \/ ChatDispatch
    \/ ChatUnknown
    \/ ToolReturns
    \/ ToolRaises
    \/ GetToken
    \/ Request

NextLive ==
    \/ ChatStart
    \/ ModelReplies
    \/ ModelInsists
    \/ ModelFails
    \/ NoCandidate
    \/ ChatReturn
    \/ ChatDispatch
    \/ ChatUnknown
    \/ ToolReturns
    \/ ToolRaises
    \/ GetToken
    \/ Request

\* chat() with a model that may ask for tools without end, every model
\* call and every Gateway call coming back
SpecLive == Init /\ [][NextLive]_vars /\ WF_vars(InCallStep)


\* ------------------------------------------------------- the web dashboard
\* os.getenv of the four variables initialize_clients reads; "" stands for
\* a variable that is unset or empty
Environments ==
    [AKEYLESS_ACCESS_ID : {"", "id"},
     AKEYLESS_ACCESS_KEY : {"", "key"},
     AKEYLESS_GATEWAY_URL : {"", "https://gw.example"},
     GEMINI_API_KEY : {"", "g"}]

DefaultGatewayUrl == "https://api.akeyless.io"

\* AkeylessClient(access_id, access_key, gateway_url)
NewAkeylessClient(access_id, access_key, gateway_url) ==
    [access_id |-> access_id, access_key |-> access_key,
     gateway_url |-> gateway_url, token |-> TokenNone]

\* AkeylessGeminiAgent(akeyless, gemini_api_key), when the constructor
\* does not raise
NewAgent(akeyless, gemini_api_key) ==
    [akeyless |-> akeyless, api_key |-> gemini_api_key]

\* InitializeClients setting authenticated before the agent is built
InitializeClientsFlagFirst(session, env, agent_built) ==
    IF env.AKEYLESS_ACCESS_ID = "" \/ env.AKEYLESS_ACCESS_KEY = ""
           \/ env.GEMINI_API_KEY = ""
    THEN [state |-> session, ok |-> FALSE]
    ELSE LET c == NewAkeylessClient(
                      env.AKEYLESS_ACCESS_ID, env.AKEYLESS_ACCESS_KEY,
                      IF env.AKEYLESS_GATEWAY_URL = "" THEN DefaultGatewayUrl
                      ELSE env.AKEYLESS_GATEWAY_URL)
         IN
         IF agent_built
         THEN [state |-> [akeyless_client |-> c,
                          agent |-> NewAgent(c, env.GEMINI_API_KEY),
                          authenticated |-> TRUE],
               ok |-> TRUE]
         ELSE [state |-> [akeyless_client |-> c, agent |-> session.agent,
                          authenticated |-> TRUE],
               ok |-> FALSE]

\* initialize_clients(): the session state it leaves and the value it
\* returns. A variable missing: nothing is assigned. Otherwise the client
\* is assigned, then the agent is built and assigned, then authenticated
\* is set; an exception of the agent's constructor is caught after the
\* client was assigned.
InitializeClients(session, env, agent_built) ==
    IF env.AKEYLESS_ACCESS_ID = "" \/ env.AKEYLESS_ACCESS_KEY = ""
           \/ env.GEMINI_API_KEY = ""
    THEN [state |-> session, ok |-> FALSE]
    ELSE LET c == NewAkeylessClient(
                      env.AKEYLESS_ACCESS_ID, env.AKEYLESS_ACCESS_KEY,
                      IF env.AKEYLESS_GATEWAY_URL = "" THEN DefaultGatewayUrl
                      ELSE env.AKEYLESS_GATEWAY_URL)
         IN
         IF agent_built
         THEN [state |-> [akeyless_client |-> c,
                          agent |-> NewAgent(c, env.GEMINI_API_KEY),
                          authenticated |-> TRUE],
               ok |-> TRUE]
         ELSE [state |-> [akeyless_client |-> c, agent |-> session.agent,
                          authenticated |-> session.authenticated],
               ok |-> FALSE]

\* the "Connect to Akeyless" button, shown while not authenticated
Connect ==
    /\ ~authenticated
    /\ \E env \in Environments, agent_built \in BOOLEAN :
         LET r == InitializeClients(
                      [akeyless_client |-> akeyless_client, agent |-> agent,
                       authenticated |-> authenticated], env, agent_built)
         IN
         /\ akeyless_client' = r.state.akeyless_client
         /\ agent' = r.state.agent
         /\ authenticated' = r.state.authenticated
    /\ UNCHANGED <<chat_history, client, gwVars, nHttp, chatVars>>

\* the prompts of the "List All Secrets" and "Secret Statistics" buttons
QuickPrompts ==
    {"List all my secrets", "Give me detailed statistics about my secrets"}

UserMessage(text) == [role |-> "user", content |-> [text |-> text]]
AgentMessage(a) == [role |-> "agent", content |-> a]

\* a quick-action button: its prompt is appended as a user message
QuickAction ==
    /\ authenticated
    /\ Len(chat_history) < MaxHistory
    /\ \E q \in QuickPrompts : chat_history' = Append(chat_history, UserMessage(q))
    /\ UNCHANGED <<authenticated, akeyless_client, agent,
                   client, gwVars, nHttp, chatVars>>

\* the "Clear Chat History" button
ClearChat ==
    /\ authenticated
    /\ chat_history' = <<>>
    /\ UNCHANGED <<authenticated, akeyless_client, agent,
                   client, gwVars, nHttp, chatVars>>

\* the "Disconnect" button
Disconnect ==
    /\ authenticated
    /\ authenticated' = FALSE
    /\ akeyless_client' = PyNone
    /\ agent' = PyNone
    /\ chat_history' = <<>>
    /\ UNCHANGED <<client, gwVars, nHttp, chatVars>>

\* what agent.chat(user_input) hands back to the dashboard: the model's
\* text or an error text
ChatAnswer(failed) ==
    IF failed THEN ErrorAnswer(ModelErrorExc) ELSE TextAnswer(<<"T">>)

\* the chat input: the user message is appended, agent.chat is called and
\* its answer is appended; with no agent the attribute access raises and
\* the except branch appends the error text
ChatInput ==
    /\ authenticated
    /\ Len(chat_history) + 2 <= MaxHistory
    /\ \E user_input \in UserMessages, failed \in BOOLEAN :
         LET a == IF agent = PyNone THEN ErrorAnswer(AttributeErrorExc)
                  ELSE ChatAnswer(failed)
         IN
         chat_history' = chat_history \o
                             <<UserMessage(user_input), AgentMessage(a)>>
    /\ UNCHANGED <<authenticated, akeyless_client, agent,
                   client, gwVars, nHttp, chatVars>>

NextUI ==
    \/ Connect
    \/ QuickAction
    \/ ClearChat
    \/ Disconnect
    \/ ChatInput

\* one browser session of the dashboard, one event after another
SpecUI == Init /\ [][NextUI]_vars


\* ------------------------------------------------------------------ claims
\* the operation in progress has had a failed HTTP exchange
SomeExchangeFailed ==
    \E i \in 1..Len(http) : ExchangeOutcome(http[i].reply) # "ok"

\* C1: every Gateway operation answers every transport or HTTP-status
\* failure, a failure of the /auth request included, with a value that
\* carries an "error" key, and never raises.
C1_FailuresReturnedNotRaised ==
    /\ gwPhase # "raised"
    /\ (gwPhase = "returned" /\ SomeExchangeFailed) => HasKey(gwOut, "error")


\* the listing a finished count_secrets_by_type call was given by /list-items
ListedBy == DictGet(http[2].reply.body, "items", PyList(<<>>)).l

CountReturned ==
    /\ gwOp = "count_secrets_by_type"
    /\ gwPhase = "returned"
    /\ Len(http) = 2
    /\ ExchangeOutcome(http[2].reply) = "ok"

\* the keyword occurs in the type, letter case ignored
OccursIgnoringCase(keyword, type) ==
    \E k \in 1..Len(type) :
        /\ k + Len(keyword) - 1 <= Len(type)
        /\ \A j \in 1..Len(keyword) : UpperChar(type[k + j - 1]) = keyword[j]

KeywordOf(b) ==
    CASE b = "static" -> STATIC [] b = "rotated" -> ROTATED [] b = "dynamic" -> DYNAMIC

\* an item may stand in bucket b: its type matches b's keyword, or b is
\* other and the type matches no keyword
MayStandIn(item, b) ==
    LET type == DictGet(item, "item_type", <<>>) IN
    IF b = "other"
    THEN \A c \in Buckets \ {"other"} : ~OccursIgnoringCase(KeywordOf(c), type)
    ELSE OccursIgnoringCase(KeywordOf(b), type)

\* C7: on a successful listing of N items count_secrets_by_type puts every
\* item in exactly one of static, rotated, dynamic, other: the four counts
\* sum to N = total, each count is the length of its bucket's name list,
\* the name lists together hold each listed item once, and an item stands
\* in a bucket whose keyword its type matches without regard to case, or
\* in other when it matches none.
C7_BucketsPartitionListing ==
    CountReturned =>
        LET items == ListedBy
            counts == gwOut.d.counts
            names == gwOut.d.items_by_type
        IN
        /\ counts.total = Len(items)
        /\ counts.static + counts.rotated + counts.dynamic + counts.other
               = Len(items)
        /\ \A b \in Buckets : counts[b] = Len(names[b])
        /\ \A i \in 1..Len(items) :
             \E b \in Buckets :
                /\ MayStandIn(items[i], b)
                /\ Cardinality({k \in 1..Len(names[b]) :
                                    names[b][k] = items[i].d.item_name})
                     = Cardinality({k \in 1..Len(items) :
                                    /\ items[k].d.item_name = items[i].d.item_name})
                /\ \A c \in Buckets \ {b} :
                     \A k \in 1..Len(names[c]) :
                        names[c][k] # items[i].d.item_name

\* C7 witness: a listing with a lower-case static item and an item of no
\* known type has been counted
C7_Witness ==
    /\ CountReturned
    /\ Len(ListedBy) = 2
    /\ gwOut.d.counts.static = 1
    /\ gwOut.d.counts.other = 1
    /\ DictGet(ListedBy[1], "item_type", <<>>) = <<"s","t","a","t","i","c">>


\* a finished get_static_secret / get_rotated_secret call whose endpoint
\* answered 2xx with a string under the cleaned name
RawFetched ==
    /\ gwOp \in {"get_static_secret", "get_rotated_secret"}
    /\ gwPhase = "returned"
    /\ Len(http) = 2
    /\ ExchangeOutcome(http[2].reply) = "ok"
    /\ HasKey(http[2].reply.body, http[2].payload.names[1])
    /\ http[2].reply.body.d[http[2].payload.names[1]].t = "str"

RawValueFetched == http[2].reply.body.d[http[2].payload.names[1]].s

\* C8: get_static_secret and get_rotated_secret alike return type
\* "structured" with the parsed mapping as fields when the raw value is a
\* JSON object, and type "simple" with the raw string as value for every
\* other raw value.
C8_StructuredOrSimple ==
    RawFetched =>
        LET parsed == JsonLoads(RawValueFetched) IN
        IF parsed.ok /\ parsed.val.t = "dict"
        THEN /\ HasKey(gwOut, "type") /\ gwOut.d.type = "structured"
             /\ HasKey(gwOut, "fields") /\ gwOut.d.fields = parsed.val.d
        ELSE /\ HasKey(gwOut, "type") /\ gwOut.d.type = "simple"
             /\ HasKey(gwOut, "value") /\ gwOut.d.value = PyStr(RawValueFetched)

\* the path of the /list-items request of the operation in progress
ListRequestSent == gwOp \in PathOps /\ Len(http) = 2
RequestPath == http[2].payload.path

\* C9: list_secrets sends "/prod" for the paths "/prod/*", "/prod/" and
\* "/prod", sends "/" for "", "/" and "*", and never sends an empty path.
C9_ListPathNormalised ==
    ListRequestSent =>
        /\ http[2].url = "/list-items"
        /\ RequestPath # <<>>
        /\ (gwArgs.path \in {Prod, Prod \o <<"/">>, Prod \o <<"/", "*">>}
                => RequestPath = Prod)
        /\ (gwArgs.path \in {<<>>, <<"/">>, <<"*">>} => RequestPath = <<"/">>)

\* C9 witness: list_secrets("/prod/*") has sent its request with "/prod"
C9_Witness ==
    /\ ListRequestSent
    /\ gwOp = "list_secrets"
    /\ gwArgs.path = Prod \o <<"/", "*">>
    /\ RequestPath = Prod

\* the name in the endpoint request of a name-taking operation
NameRequestSent == gwOp \in NameOps /\ Len(http) = 2
RequestName ==
    IF gwOp \in {"get_static_secret", "get_rotated_secret"}
    THEN http[2].payload.names[1] ELSE http[2].payload.name

\* C10 as stated: a name-taking operation strips exactly one leading "/":
\* the request name is the name without its first character when that is
\* "/", and the name itself otherwise.
C10_ExactlyOneSlashStripped ==
    NameRequestSent =>
        LET name == gwArgs.secret_name IN
        RequestName = IF name # <<>> /\ name[1] = "/"
                      THEN SubSeq(name, 2, Len(name)) ELSE name

\* C10 amended: a name-taking operation strips every leading "/": the
\* request name does not start with "/" and is the name after its run of
\* leading slashes, so "/a" and "a" give the same request name and "//a"
\* gives it as well.
C10_AllLeadingSlashesStripped ==
    NameRequestSent =>
        LET name == gwArgs.secret_name IN
        /\ (RequestName # <<>> => RequestName[1] # "/")
        /\ \E k \in 0..Len(name) :
              /\ \A i \in 1..k : name[i] = "/"
              /\ RequestName = SubSeq(name, k + 1, Len(name))

\* C10 witness: a name with two leading slashes has been requested without
\* either of them
C10_Witness ==
    /\ NameRequestSent
    /\ gwArgs.secret_name = <<"/", "/", "a">>
    /\ RequestName = <<"a">>


\* the parts of the model's latest turn
LatestParts == response.candidates[1].parts
HasTurn == response.candidates # <<>>
NoToolCallIn(parts) == \A i \in 1..Len(parts) : ~IsFunctionCall(parts[i])

\* C2: when a model turn requests a registered tool, chat() invokes the
\* matching Gateway operation once with those arguments and sends its
\* result back as one function-response turn, and it returns an answer
\* only after a later turn holds no further tool call: while the tool runs
\* the Gateway operation and arguments are those of the call, and when
\* chat() has returned every invocation has had its result sent back and,
\* unless the answer is an error text, the latest turn starts no tool call.
C2_ToolResultFedBack ==
    /\ pc = "tool" =>
          /\ gwOp = LatestParts[1].name
          /\ gwArgs = BoundArgs(LatestParts[1].name, LatestParts[1].args)
          /\ invoked = fedBack + 1
    /\ pc = "returned" =>
          /\ fedBack = invoked
          /\ (~answer.error => ~FirstPartIsCall(response))

\* the first turn of this chat() call is the latest one and chat() returned
ReturnedOnFirstTurn == pc = "returned" /\ rounds = 0 /\ HasTurn

\* C3 as stated: when the first turn holds no tool call, chat() returns
\* that turn's text and performs no Gateway operation and no vault request.
C3_TextReturnedVerbatim ==
    (ReturnedOnFirstTurn /\ NoToolCallIn(LatestParts)) =>
        /\ ~answer.error
        /\ answer.body = [i \in 1..Len(LatestParts) |-> LatestParts[i].text]
        /\ invoked = 0 /\ nHttp = 0 /\ gwPhase = "idle"

\* C3 amended: when the first turn holds at least one part and no tool
\* call, chat() returns that turn's text and performs no Gateway operation
\* and no vault request; when the first turn holds no part at all, chat()
\* returns an error text, again without any Gateway operation.
C3_TextOfNonEmptyTurnReturned ==
    (ReturnedOnFirstTurn /\ NoToolCallIn(LatestParts)) =>
        /\ invoked = 0 /\ nHttp = 0 /\ gwPhase = "idle"
        /\ IF LatestParts # <<>>
           THEN /\ ~answer.error
                /\ answer.body =
                       [i \in 1..Len(LatestParts) |-> LatestParts[i].text]
           ELSE /\ answer.error
                /\ answer.body = StrOfExc(ValueErrorExc)

\* C3 witness: chat() has returned the text of a first turn that is text
C3_Witness ==
    /\ ReturnedOnFirstTurn
    /\ LatestParts = <<TextPart>>
    /\ ~answer.error
    /\ answer.body = <<"T">>
    /\ nHttp = 0

\* C4: a tool call naming no registered function starts no Gateway
\* operation; {error: "Unknown function: <name>"} is sent to the model as
\* a function response and chat() goes on to the model's next turn.
C4_UnknownToolAnswered ==
    [][(/\ pc = "loop"
        /\ HasTurn
        /\ FirstPartIsCall(response)
        /\ LatestParts[1].name \notin GatewayOps)
       => (/\ pc' = "sending"
           /\ sent' = [kind |-> "function_response",
                       name |-> LatestParts[1].name,
                       response |-> [result |-> PyDict(
                           [error |-> <<"Unknown function: ",
                                        LatestParts[1].name>>])]]
           /\ UNCHANGED <<gwVars, nHttp, invoked, answer>>)]_vars

\* C4 witness: after an unknown tool call and nothing else, chat() went on
\* and returned the text of the model's next turn
C4_Witness ==
    /\ pc = "returned"
    /\ ~answer.error
    /\ rounds = 1
    /\ invoked = 0
    /\ nHttp = 0

\* C5: an exception of send_message, on the first send or on a function
\* response, ends chat() with an error text and is never raised by chat();
\* afterwards chat() can be called again.
C5_ModelFaultsAnswered ==
    /\ [](pc \in {"idle", "sending", "loop", "tool", "returned"})
    /\ [][(pc = "sending" /\ pc' # "loop")
          => (/\ pc' = "returned"
              /\ answer'.error
              /\ answer'.body = StrOfExc(ModelErrorExc))]_vars
    /\ []((pc = "returned" /\ answer.error) => ENABLED ChatStart)

\* C5 witness: after a chat() call that ended on a model fault, a later
\* call on the same agent ran a tool and returned the model's text
C5_Witness ==
    /\ failedBefore
    /\ pc = "returned"
    /\ ~answer.error
    /\ invoked >= 1
    /\ fedBack = invoked

\* C6: when chat() returns an answer that is no error text, no part of the
\* model's latest turn, at any position, is a tool call.
C6_NoCallLeftInAnswerTurn ==
    (pc = "returned" /\ ~answer.error) =>
        /\ HasTurn
        /\ NoToolCallIn(LatestParts)

\* C6 witness: chat() returned the model's text after tool round trips
C6_Witness ==
    /\ pc = "returned"
    /\ ~answer.error
    /\ rounds >= 1
    /\ invoked >= 1
    /\ LatestParts = <<TextPart>>

\* every exchange of the operation in progress but the latest succeeded
OnlyLatestMayHaveFailed ==
    \A i \in 1..(Len(http) - 1) : ExchangeOutcome(http[i].reply) = "ok"

\* the latest exchange of the operation in progress failed
LatestExchangeFailed ==
    http # <<>> /\ ExchangeOutcome(http[Len(http)].reply) # "ok"

\* C11: there is no retry. Inside a Gateway operation a failed /auth or
\* endpoint exchange is the last one the operation makes: it has ended,
\* raising or returning a value with an "error" key, and the only request
\* that may follow belongs to a newly started operation. Inside chat() a
\* send_message that throws ends the call with the error text, the failed
\* message is not sent again, and the next message to the model is the
\* first one of a new chat() call.
C11_NoRetry ==
    /\ [](/\ Len(http) <= 2
          /\ OnlyLatestMayHaveFailed
          /\ LatestExchangeFailed =>
                /\ gwPhase \in {"raised", "returned"}
                /\ (gwPhase = "returned" => HasKey(gwOut, "error")))
    /\ [][LatestExchangeFailed => (http' = http \/ http' = <<>>)]_vars
    /\ [][(pc = "sending" /\ pc' # "loop")
          => (pc' = "returned" /\ answer'.error /\ UNCHANGED <<sent, rounds>>)]_vars
    /\ [][(pc = "returned" /\ pc' # "returned")
          => (pc' = "sending" /\ rounds' = 0 /\ sent'.kind = "text")]_vars

\* C11 witness: in a chat() call that follows one ended by a model fault,
\* a tool's endpoint request has failed after a successful /auth and the
\* operation has ended on it with an error value
C11_Witness ==
    /\ failedBefore
    /\ pc = "tool"
    /\ gwPhase = "returned"
    /\ Len(http) = 2
    /\ ExchangeOutcome(http[1].reply) = "ok"
    /\ LatestExchangeFailed
    /\ HasKey(gwOut, "error")

\* the /auth requests among the requests of the operation in progress
AuthCalls == {i \in 1..Len(http) : http[i].url = "/auth"}

\* C12: every Gateway operation makes exactly one /auth request, with the
\* client's credentials, and makes it before its endpoint request; the
\* endpoint request carries the token that /auth request gave and no
\* other; the client's stored token stays unset and its credentials stay
\* what the constructor was given, whatever operations have run;
\* count_secrets_by_type makes one /auth and one /list-items request.
C12_OneAuthPerOperation ==
    /\ client = [access_id |-> "id", access_key |-> "key",
                 gateway_url |-> "https://api.akeyless.io",
                 token |-> TokenNone]
    /\ (gwPhase \in {"request", "returned", "raised"}) => AuthCalls = {1}
    /\ gwPhase = "auth" => http = <<>>
    /\ gwPhase = "request" => Len(http) = 1
    /\ Len(http) <= 2
    /\ http # <<>> =>
          http[1].payload = [access_id |-> client.access_id,
                             access_key |-> client.access_key]
    /\ Len(http) = 2 =>
          /\ ExchangeOutcome(http[1].reply) = "ok"
          /\ http[2].url = EndpointOf(gwOp)
          /\ http[2].payload.token =
                 DictGet(http[1].reply.body, "token", TokenNone)

\* C12 witness: count_secrets_by_type has returned counts after one /auth
\* request answered with the token tok2 and one /list-items request
\* carrying tok2, and the client's stored token is unset
C12_Witness ==
    /\ CountReturned
    /\ HasKey(gwOut, "counts")
    /\ AuthCalls = {1}
    /\ http[1].reply.body = PyDict([token |-> "tok2"])
    /\ http[2].payload.token = "tok2"
    /\ client.token = TokenNone

\* the /auth exchange of the operation in progress gave a token: it was
\* answered 2xx with a body that has a token field
AuthGaveToken ==
    /\ ExchangeOutcome(http[1].reply) = "ok"
    /\ HasKey(http[1].reply.body, "token")

\* C13: the /auth request of an operation yields a session token string
\* when it is answered 2xx with a token field; when it is answered
\* non-2xx, and when it is answered 2xx without a token field, the
\* operation fails on it and sends no endpoint request.
C13_NoTokenNoRequest ==
    http # <<>> =>
        IF AuthGaveToken
        THEN /\ gwPhase # "auth"
             /\ gwToken = http[1].reply.body.d.token
             /\ gwToken \in SessionTokens
        ELSE /\ Len(http) = 1
             /\ gwPhase = "raised"

\* a count_secrets_by_type call has ended
CountEnded ==
    gwOp = "count_secrets_by_type" /\ gwPhase \in {"returned", "raised"}

\* C14: when the list_secrets call inside count_secrets_by_type fails,
\* count_secrets_by_type returns the failure value of list_secrets as it
\* is, an {error: ...} value and no counts; when list_secrets succeeds it
\* returns counts and items_by_type and no error key.
C14_ListFailurePassedThrough ==
    CountEnded =>
        IF SomeExchangeFailed
        THEN /\ gwPhase = "returned"
             /\ Len(http) = 2
             /\ gwOut = ListSecrets(http[2].reply).val
             /\ HasKey(gwOut, "error")
             /\ ~HasKey(gwOut, "counts")
        ELSE /\ gwPhase = "returned"
             /\ HasKey(gwOut, "counts")
             /\ HasKey(gwOut, "items_by_type")
             /\ ~HasKey(gwOut, "error")

\* a chat() call is in progress
InCall == pc \in {"sending", "loop", "tool"}

\* the model's latest turn asks for a tool: it has a first part and that
\* part is a function call
ToolRequested ==
    /\ pc = "loop"
    /\ response.candidates # <<>>
    /\ response.candidates[1].parts # <<>>
    /\ response.candidates[1].parts[1].kind = "fc"

\* C15: chat() returns exactly when the model's latest turn does not start
\* with a tool call or a call fails. A call in progress ends only from a
\* turn that asks for no tool, from a send_message or Gateway call that
\* raised, or from a tool call whose arguments do not bind; a turn that
\* asks for no tool ends it at once; a turn that asks for a tool never
\* ends it with the model's text, whatever the number of round trips so
\* far. When every model call and Gateway call comes back and the model
\* eventually stops asking for tools, every chat() call returns.
C15_ReturnsIffModelStops ==
    /\ [][(InCall /\ pc' = "returned") =>
            IF pc = "loop"
            THEN \/ ~ToolRequested
                 \/ (answer'.error /\ answer'.body = StrOfExc(TypeErrorExc))
            ELSE answer'.error]_vars
    /\ [][(pc = "loop" /\ ~ToolRequested) => pc' = "returned"]_vars
    /\ [][ToolRequested =>
            \/ pc' \in {"tool", "sending"}
            \/ (pc' = "returned" /\ answer'.error)]_vars
    /\ (<>[](~ToolRequested)) => (InCall ~> (pc = "returned"))

\* C15 witness: chat() has returned the model's text after more than
\* MaxRounds round trips, one of them a Gateway operation
C15_Witness ==
    /\ pc = "returned"
    /\ ~answer.error
    /\ rounds > MaxRounds
    /\ invoked >= 1

\* C16: in every state of a dashboard session authenticated holds only
\* while akeyless_client and agent are both set, so an initialisation that
\* failed, with or without the client assigned, leaves authenticated
\* false; and a step that takes authenticated from true to false (the
\* Disconnect button) leaves the client and the agent unset and the chat
\* history empty.
C16_SessionStateConsistent ==
    /\ [](authenticated => (akeyless_client # PyNone /\ agent # PyNone))
    /\ [][(authenticated /\ ~authenticated') =>
            /\ akeyless_client' = PyNone
            /\ agent' = PyNone
            /\ chat_history' = <<>>]_vars
    /\ [][Disconnect => ~authenticated']_vars

\* C16 witness: an initialisation has assigned the client and failed on
\* the agent: the client is set, the agent is not, and authenticated is
\* false
C16_Witness ==
    /\ ~authenticated
    /\ akeyless_client # PyNone
    /\ agent = PyNone
    /\ chat_history = <<>>

====
